---- MODULE Spec2Model ----
(***************************************************************************)
(* A model of the closure serializer of src/src/serialize-closure.ts:      *)
(* serializeFunction walks the live value graph reachable from a root      *)
(* function and emits the statements of a JavaScript module.  The heap the *)
(* walk reads (functions, objects, scope chains, bound-function internals) *)
(* is drawn from bounded sets in Init; the action Serialize is one         *)
(* serialize call, computed the way the code computes it.                  *)
(***************************************************************************)
EXTENDS Naturals, Integers, Sequences, FiniteSets, TLC

VARIABLES
    idents,        \* per function: the free identifiers of its body, in AST order
    ownProps,      \* per plain object: the values of its own enumerable properties
    internals,     \* what the probe reports for the bound wrapper "bf"
    gform,         \* what the source text of the function "g" parses to
    gscopes,       \* whether the probe returns [[Scopes]] for "g"
    root,          \* the function handed to serializeFunction
    options,       \* serializeProps of the call
    status,        \* "pending" before the call; then how it ended: "ok" (it
                   \* returned), "error" (it was rejected), "diverged" (it never ends)
    error,         \* which error the call was rejected with
    statements,    \* the call's local `statements` array when it ended
    valueCache,    \* the call's local `valueCache` when it ended
    called,        \* the functions the inner serializeFunction was invoked on
    output,        \* what the caller receives: the module, or NoOutput
    arrival,       \* the order in which the probe's answers for the free
                   \* variables of one function complete
    calls,         \* how many serialize calls have ended
    previous,      \* what the caller received from the call before the last
    mutated,       \* whether the host changed the heap since the last call
    tasks,         \* the probe's asynchronous calls in progress: what each is,
                   \* where it stands, and the scratch-table id it drew
    context,       \* the probe's inflightContext: both scratch tables (the ids
                   \* in use) and both id counters
    closures,      \* the closure registry: per registered function its extractor
    parsedClosureCache,  \* per function the record getClosure made of its entry
    lastCall,      \* the last call of registerClosure or getClosure and how it ended
    analysed,      \* the function node handed to the free-variable analysis
    discovered,    \* what the analysis returned for it
    sourceText,    \* the text parseFunctionString is working on, as tokens
    retries,       \* how often parseFunctionString has called itself
    parseResult    \* how parseFunctionString ended, "parsing" until then

heap == <<idents, ownProps, internals, gform, gscopes, root, options>>
ended == <<status, error, statements, valueCache, called, output>>
host == <<arrival, calls, previous, mutated>>
probe == <<tasks, context>>
registry == <<closures, parsedClosureCache, lastCall>>
analysis == <<analysed, discovered>>
parsing == <<sourceText, retries, parseResult>>

vars == <<heap, ended, host, probe, registry, analysis, parsing>>

(***************************************************************************)
(* Bounds of the model.                                                    *)
(***************************************************************************)
MaxFree == 2

SeqsUpTo(set, n) == UNION {[1..m -> set] : m \in 0..n}

(***************************************************************************)
(* Values.  A JavaScript value is a primitive or a reference to a heap     *)
(* object; `typeof` is TypeOf.                                             *)
(***************************************************************************)
Ref(id) == [k |-> "ref", id |-> id]
Str(s) == [k |-> "string", id |-> s]
Undefined == [k |-> "undefined", id |-> ""]
Null == [k |-> "null", id |-> ""]

UserFunctions == {"f", "g", "h"}
NativeFunctions == {"nat", "bf", "Object", "Array"}
Functions == UserFunctions \cup NativeFunctions
PlainObjects == {"o1", "o2"}
Arrays == {"arr"}
Objects == PlainObjects \cup Arrays \cup {"ObjectPrototype", "ArrayPrototype", "console"}

TypeOf(value) ==
    IF value.k = "ref"
    THEN IF value.id \in Functions THEN "function" ELSE "object"
    ELSE value.k

(***************************************************************************)
(* The heap.  "f" and "g" are user functions, "nat" is an engine-native    *)
(* function, "bf" is a bound wrapper (its name starts with "bound "), and  *)
(* "Object" and "Array" are global constructors; "console" is the global   *)
(* object whose method "log" is native; "arr" is the array ["hello"].  A function's source text is the token    *)
(* sequence Function.prototype.toString reports.                           *)
(***************************************************************************)
FuncString(func) ==
    IF func \in NativeFunctions
    THEN <<"function", "(", ")", "{", "[native code]", "}">>
    ELSE IF func = "f"
         THEN <<"(", ")", "=>", "{", "}">>
         ELSE <<"function", func, "(", ")", "{", "}">>

FuncName(func) == IF func = "bf" THEN <<"bound ", "">> ELSE <<func>>

\* Variants of the native test: one that never fires, and one that looks for
\* the marker at the start of the text only.
isNativeFunctionNever(funcString) == FALSE
isNativeFunctionAtStart(funcString) ==
    Len(funcString) > 0 /\ funcString[1] = "[native code]"

isNativeFunction(funcString) ==
    \E n \in 1..Len(funcString) : funcString[n] = "[native code]"

isBoundFunction(func) == FuncName(func)[1] = "bound "

\* value.hasOwnProperty("constructor") ? value.constructor : undefined
OwnConstructor(obj) ==
    IF obj = "ObjectPrototype" THEN Ref("Object")
    ELSE IF obj = "ArrayPrototype" THEN Ref("Array")
    ELSE Undefined

\* Object.getPrototypeOf(value)
PrototypeOf(obj) ==
    IF obj = "ObjectPrototype" THEN Null
    ELSE IF obj \in Arrays THEN Ref("ArrayPrototype")
    ELSE Ref("ObjectPrototype")

\* Object.keys(value), as <<key, value>> pairs in key order
OwnProperties(obj) ==
    IF obj \in PlainObjects
    THEN [n \in 1..Len(ownProps[obj]) |-> <<"p" \o ToString(n), ownProps[obj][n]>>]
    ELSE IF obj = "console" THEN << <<"log", Ref("nat")>> >>
    ELSE IF obj \in Arrays THEN << <<"0", Str("hello")>> >>
    ELSE <<>>

(***************************************************************************)
(* The engine probe.  Every user function closes over the same module      *)
(* scope; the chain is ordered innermost first and ends with the global    *)
(* scope.  The name "u" is bound in no scope; the name "s" is bound in     *)
(* both, to different strings.                                             *)
(***************************************************************************)
ModuleScope ==
    [p |-> Str("hi"), o1 |-> Ref("o1"), o2 |-> Ref("o2"), f |-> Ref("f"),
     g |-> Ref("g"), h |-> Ref("h"), nat |-> Ref("nat"), bf |-> Ref("bf"),
     arr |-> Ref("arr"), s |-> Str("inner")]
GlobalScope ==
    [Object |-> Ref("Object"), console |-> Ref("console"), s |-> Str("outer")]

NoScopes == <<"[[Scopes]] undefined">>

ScopesOf(func) ==
    IF func = "g" /\ ~gscopes THEN NoScopes ELSE <<ModuleScope, GlobalScope>>

\* A variant of the walk that starts at the far end of the chain.
getFreeVariableValueFromLast(closure, freeVariable) ==
    LET scopes == ScopesOf(closure)
        hits == {n \in 1..Len(scopes) : freeVariable \in DOMAIN scopes[n]}
    IN  IF scopes = NoScopes
        THEN [threw |-> TRUE, val |-> Undefined]
        ELSE IF hits = {}
             THEN [threw |-> FALSE, val |-> Undefined]
             ELSE LET last == CHOOSE n \in hits : \A m \in hits : n >= m
                  IN  [threw |-> FALSE, val |-> scopes[last][freeVariable]]

\* getFreeVariableValue(closure, freeVariable, false): the first scope, from
\* index 0 on, that has the name supplies the value; undefined if none has.
getFreeVariableValue(closure, freeVariable) ==
    LET scopes == ScopesOf(closure)
        hits == {n \in 1..Len(scopes) : freeVariable \in DOMAIN scopes[n]}
    IN  IF scopes = NoScopes
        THEN [threw |-> TRUE, val |-> Undefined]
        ELSE IF hits = {}
             THEN [threw |-> FALSE, val |-> Undefined]
             ELSE LET first == CHOOSE n \in hits : \A m \in hits : n <= m
                  IN  [threw |-> FALSE, val |-> scopes[first][freeVariable]]

\* The probe's answers for the promises of one getFreeVariables call, in the
\* order they complete: each is <<position of the promise, its value>>.
Arrivals == {"in order", "reversed"}
Settled(promises) ==
    [n \in 1..Len(promises) |->
        IF arrival = "in order"
        THEN <<n, promises[n]>>
        ELSE <<Len(promises) + 1 - n, promises[Len(promises) + 1 - n]>>]

\* A variant of Promise.all that lists the values as they complete.
PromiseAllAsSettled(settled) == [n \in 1..Len(settled) |-> settled[n][2]]

\* Promise.all: the value of the n-th promise is the n-th element of the
\* result, whenever it completed.
PromiseAll(settled) ==
    [n \in 1..Len(settled) |->
        settled[CHOOSE m \in 1..Len(settled) : settled[m][1] = n][2]]

\* getFreeVariables(func, funcAST): one FreeVariable record per free
\* identifier of the body, in AST order.
getFreeVariables(func) ==
    LET ids == idents[func]
        vals == [n \in 1..Len(ids) |-> getFreeVariableValue(func, ids[n])]
    IN  [threw |-> \E n \in 1..Len(ids) : vals[n].threw,
         list |-> PromiseAll(Settled(
                     [n \in 1..Len(ids) |->
                        [variableName |-> ids[n], variableValue |-> vals[n].val]]))]

\* getFunctionIdentifiers(funcAST): every identifier text in the function.
LocalIdentifiers(func) == IF func = "g" THEN {"g", "v3"} ELSE {}
getFunctionIdentifiers(func) ==
    {idents[func][n] : n \in 1..Len(idents[func])} \cup LocalIdentifiers(func)

\* getFunctionInternals(func): the probe's internal properties of a bound
\* function, undefined for any other function.
NoInternals == [target |-> "", this |-> Undefined, args |-> <<>>]
getFunctionInternals(func) ==
    IF FuncName(func)[1] # "bound " THEN NoInternals ELSE internals

\* Object.getPrototypeOf(func), and the identifier of the class's extends
\* clause ("" if it has none): "g", when it is a class, extends "h".
MetaPrototypeOf(func) ==
    IF func = "g" /\ gform = "ClassDeclaration"
    THEN Ref("h")
    ELSE Ref("FunctionPrototype")
ExtendsClause(func) ==
    IF func = "g" /\ gform = "ClassDeclaration" THEN "h" ELSE ""

\* parseFunctionString followed by getClosureFromSourceFile: the kind of the
\* single top-level statement, "none" if it is no function or class.
ParsedForm(func) ==
    IF func = "g" THEN gform
    ELSE IF FuncString(func)[1] = "function" THEN "FunctionDeclaration"
    ELSE "ArrowFunction"

(***************************************************************************)
(* Syntax trees.  A tree is known by the function it was parsed from and   *)
(* the transforms applied to it since, in order.                           *)
(***************************************************************************)
parseFunctionString(func) == [of |-> func, applied |-> <<>>]
transform(tree, transformers) == [tree EXCEPT !.applied = Append(@, transformers)]

\* `parsedCode` as it is when the closure statement is created: the parsed
\* source file, replaced by the pre-processed one if preProcess is configured.
parsedCode(func) ==
    IF options.preProcess # "none"
    THEN transform(parseFunctionString(func), "preProcess")
    ELSE parseFunctionString(func)

\* `funcAST` as the free-variable analysis reads it: the closure taken from
\* parsedCode, pre-processed (once more) if preProcess is configured.
analysedAST(func) ==
    IF options.preProcess # "none"
    THEN transform(parsedCode(func), "preProcess")
    ELSE parsedCode(func)

\* `funcAST` after the free variables have been serialized: post-processed
\* if postProcess is configured.
funcAST(func) ==
    IF options.postProcess # "none"
    THEN transform(analysedAST(func), "postProcess")
    ELSE analysedAST(func)

\* The tree handed to createClosureStatement as `stmt`.
closureStmt(func) == parsedCode(func)

(***************************************************************************)
(* Emitted code.  An expression is an identifier, a literal, or (where the *)
(* code hands the printer a live value instead of an AST node) that raw    *)
(* value.  A statement is one of                                           *)
(*   var <name>;                                        kind "var"         *)
(*   var <name> = { <keys[n]>: <exprs[n]>, ... };        kind "object"      *)
(*   Object.setPrototypeOf(<name>, <exprs[1]>);          kind "setProto"    *)
(*   const <name> = ((<keys>) => <fn>[.bind(<bind>)])(<exprs>);             *)
(*                                                      kind "closure"     *)
(* The field `val` is not part of the text: it records the heap value the  *)
(* statement was emitted for ("" for a FreeVariable record).  The field    *)
(* `ast` of a closure statement lists the transforms that were applied to  *)
(* the syntax tree the text of <fn> is printed from.                       *)
(***************************************************************************)
Identifier(text) == [t |-> "id", v |-> text]
StringLiteral(text) == [t |-> "string", v |-> text]
RawValue(value) == [t |-> "raw", v |-> IF value.k = "undefined" THEN "undefined" ELSE value.id]

createVarStatement(name) ==
    [kind |-> "var", name |-> name, keys |-> <<>>, exprs |-> <<>>,
     bind |-> <<>>, fn |-> "", val |-> "", ast |-> <<>>]
ObjectStatement(name, keys, exprs) ==
    [kind |-> "object", name |-> name, keys |-> keys, exprs |-> exprs,
     bind |-> <<>>, fn |-> "", val |-> "", ast |-> <<>>]
SetPrototypeOfStatement(name, proto) ==
    [kind |-> "setProto", name |-> name, keys |-> <<>>, exprs |-> <<proto>>,
     bind |-> <<>>, fn |-> "", val |-> "", ast |-> <<>>]
ClosureStatement(name, fn, params, args, bind) ==
    [kind |-> "closure", name |-> name, keys |-> params, exprs |-> args,
     bind |-> bind, fn |-> fn, val |-> fn, ast |-> <<>>]
PrintedFrom(stmt, tree) == [stmt EXCEPT !.ast = tree.applied]
For(stmt, value) ==
    [stmt EXCEPT !.val = IF "variableName" \in DOMAIN value THEN "" ELSE value.id]

(***************************************************************************)
(* The state of one serialize call: the `statements` array, the            *)
(* `valueCache` map, the counter `i` of nameGenerator("v"), and how the    *)
(* call has gone so far.  `ret` is the value the last operation returned.  *)
(***************************************************************************)
\* A variant in which a call finds what an earlier call left behind.
LeftoverCall ==
    [statements |-> <<>>, valueCache |-> ("o1" :> "v2"), i |-> 2, status |-> "ok",
     error |-> "", called |-> {}, ret |-> Identifier("")]

InitialCall ==
    [statements |-> <<>>, valueCache |-> <<>>, i |-> 0, status |-> "ok",
     error |-> "", called |-> {}, ret |-> Identifier("")]

emit(S, stmts) == [S EXCEPT !.statements = @ \o stmts]
throw(S, what) == [S EXCEPT !.status = "error", !.error = what]
return(S, expr) == [S EXCEPT !.ret = expr]

\* nameGenerator(prefix): count up from i until the name is not excluded.
nextVarName(S, exclude) ==
    LET ok(n) == ("v" \o ToString(n)) \notin exclude
        n == CHOOSE n \in (S.i + 1)..(S.i + 1 + Cardinality(exclude)) :
                 ok(n) /\ \A m \in (S.i + 1)..(n - 1) : ~ok(m)
    IN  [name |-> "v" \o ToString(n), S |-> [S EXCEPT !.i = n]]

IsFreeVariableRecord(value) == "variableName" \in DOMAIN value

typeof(value) == IF IsFreeVariableRecord(value) THEN "object" ELSE TypeOf(value)

\* valueCache.has(value): only heap references are ever keys of the map.
CacheHas(S, value) ==
    /\ ~IsFreeVariableRecord(value)
    /\ value.k = "ref"
    /\ value.id \in DOMAIN S.valueCache

\* What the object branch of serializeValue reads from the value.
ObjectView(value) ==
    IF IsFreeVariableRecord(value)
    THEN [constructor |-> Undefined,
          prototype |-> Ref("ObjectPrototype"),
          properties |-> << <<"variableName", Str(value.variableName)>>,
                            <<"variableValue", value.variableValue>> >>]
    ELSE [constructor |-> OwnConstructor(value.id),
          prototype |-> PrototypeOf(value.id),
          properties |-> OwnProperties(value.id)]

WhitelistedGlobals == {"Object", "Function", "String", "Array", "Number"}

(***************************************************************************)
(* createClosureStatement's helper: the desired name if the lexical scope  *)
(* does not have it, else the desired name with the tail number i.  The    *)
(* loop never advances i, so it spins when that name is taken as well.     *)
(***************************************************************************)
makeLexicallyUniqueName(desiredName, lexicalScope) ==
    IF desiredName \notin lexicalScope
    THEN [spins |-> FALSE, name |-> desiredName]
    ELSE IF (desiredName \o "0") \notin lexicalScope
         THEN [spins |-> FALSE, name |-> desiredName \o "0"]
         ELSE [spins |-> TRUE, name |-> desiredName \o "0"]

NoProps == [hasThis |-> FALSE, this |-> Undefined, variableName |-> ""]

Names(freeVariables) ==
    [n \in 1..Len(freeVariables) |-> freeVariables[n].variableName]
Values(freeVariables) ==
    [n \in 1..Len(freeVariables) |-> RawValue(freeVariables[n].variableValue)]
SetOf(seq) == {seq[n] : n \in 1..Len(seq)}

\* A variant in which the configured hook is not called.
preSerializeValueSkipped(value) == value

\* serializeProps.preSerializeValue, when configured, swaps a value for another
\* before it is serialized: the object "o2" for "o1", or the function "h" for "g".
preSerializeValue(value) ==
    IF IsFreeVariableRecord(value) THEN value
    ELSE IF options.preSerializeValue = "o2 for o1" /\ value = Ref("o1") THEN Ref("o2")
    ELSE IF options.preSerializeValue = "h for g" /\ value = Ref("g") THEN Ref("h")
    ELSE value

RECURSIVE serializeFunctionInner(_, _, _, _)
RECURSIVE serializeValue(_, _, _, _)
RECURSIVE serializeProperties(_, _, _, _, _)
RECURSIVE serializeFreeVariables(_, _, _, _, _)
RECURSIVE createClosureStatement(_, _, _, _, _, _, _)

(***************************************************************************)
(* The object branch of serializeValue, in the order the code runs it: the *)
(* own constructor, the prototype, the own properties, and then the two    *)
(* emitted statements.  `acc` carries the call state, the expression of    *)
(* the prototype (if there is one) and the property values so far.         *)
(***************************************************************************)
withObjectClass(S3) == [S |-> S3, objectClass |-> <<S3.ret>>, exprs |-> <<>>]

\* const objectClass = prototype ? await serializeValue(prototype, ...) : undefined
serializePrototype(prototype, illegalNames, S2, active) ==
    IF prototype = Null
    THEN [S |-> S2, objectClass |-> <<>>, exprs |-> <<>>]
    ELSE withObjectClass(serializeValue(prototype, illegalNames, S2, active))

pushProperty(acc, S1) == [acc EXCEPT !.S = S1, !.exprs = Append(@, S1.ret)]

\* for (const ownPropertyName of Object.keys(value)) properties.push(...)
serializeProperties(properties, n, illegalNames, acc, active) ==
    IF n > Len(properties) \/ acc.S.status # "ok"
    THEN acc
    ELSE serializeProperties(
             properties, n + 1, illegalNames,
             pushProperty(acc, serializeValue(properties[n][2], illegalNames,
                                              acc.S, active)),
             active)

\* emit([var <variableName> = {...}, Object.setPrototypeOf(...)]); return the name
emitObject(value, variableName, acc) ==
    IF acc.S.status # "ok"
    THEN acc.S
    ELSE LET properties == ObjectView(value).properties
             keys == [n \in 1..Len(properties) |-> properties[n][1]]
         IN  return(
                 emit(acc.S,
                      <<For(ObjectStatement(variableName, keys, acc.exprs), value)>>
                      \o [n \in 1..Len(acc.objectClass) |->
                            For(SetPrototypeOfStatement(variableName, acc.objectClass[n]),
                                value)]),
                 Identifier(variableName))

serializeObject(value, variableName, illegalNames, S1, active) ==
    emitObject(
        value, variableName,
        serializeProperties(
            ObjectView(value).properties, 1, illegalNames,
            serializePrototype(
                ObjectView(value).prototype, illegalNames,
                serializeValue(ObjectView(value).constructor, illegalNames, S1, active),
                active),
            active))

(***************************************************************************)
(* serializeValue(value, {illegalNames}).  `active` holds, for every       *)
(* enclosing serializeValue call that found its value uncached, the value  *)
(* and the key set of the cache at that moment: a call that finds its own  *)
(* value with the same key set among them repeats that enclosing call      *)
(* exactly, and so the recursion never returns.  (A FreeVariable record is *)
(* a fresh object at every call and cannot recur.)                         *)
(***************************************************************************)
\* The cache-miss branch, with `nn` the name drawn for the value.
serializeUncachedValue(value, nn, illegalNames, active) ==
    LET variableName == nn.name
        S1 == emit(nn.S, <<For(createVarStatement(variableName), value)>>)
        fresh == IsFreeVariableRecord(value)
        key == IF fresh THEN <<"", {}>> ELSE <<value.id, DOMAIN nn.S.valueCache>>
        inner == IF fresh THEN active ELSE active \cup {key}
    IN  IF ~fresh /\ key \in active
        THEN [S1 EXCEPT !.status = "diverged"]
        ELSE IF typeof(value) = "function"
        THEN IF value.id \in WhitelistedGlobals
             THEN return(S1, Identifier(value.id))
             ELSE serializeFunctionInner(
                      value.id,
                      [NoProps EXCEPT !.variableName = variableName],
                      S1, inner)
        ELSE IF typeof(value) = "object"
        THEN serializeObject(value, variableName, illegalNames, S1, inner)
        \* `else if (Array.isArray(value))` comes after the test for an object,
        \* which every array passes: only `return undefined` is left.
        ELSE return(S1, Identifier("undefined"))

serializeValue(valueIn, illegalNames, S, active) ==
    IF S.status # "ok" THEN S
    ELSE
    LET value == preSerializeValue(valueIn)
    IN
    IF typeof(value) \in {"undefined", "null"}
    THEN return(S, Identifier(typeof(value)))
    ELSE IF typeof(value) = "string"
    THEN return(S, StringLiteral(value.id))
    ELSE IF ~CacheHas(S, value)
    THEN serializeUncachedValue(value, nextVarName(S, illegalNames), illegalNames, active)
    ELSE return(S, Identifier(S.valueCache[value.id]))

\* for (const freeVariable of freeVariables) await serializeValue(freeVariable, ...)
serializeFreeVariables(freeVariables, n, illegalNames, S, active) ==
    IF n > Len(freeVariables) \/ S.status # "ok"
    THEN S
    ELSE serializeFreeVariables(
             freeVariables, n + 1, illegalNames,
             serializeValue(freeVariables[n], illegalNames, S, active), active)

(***************************************************************************)
(* createClosureStatement(closureName, stmt, freeVariables), in the scope  *)
(* of the serializeFunction call for `func` with `props`.  The arguments   *)
(* of the emitted call are boundThis, superValue and then each free        *)
(* variable's variableValue as the analyzer returned it.  `acc` carries    *)
(* the call state and the expressions of boundThis and superValue.         *)
(***************************************************************************)
boundThisName(freeVariables) ==
    makeLexicallyUniqueName("_self", SetOf(Names(freeVariables)))

\* Whether the function is a class whose prototype is not Function.prototype.
hasSuper(func) ==
    /\ ParsedForm(func) = "ClassDeclaration"
    /\ MetaPrototypeOf(func) # Ref("FunctionPrototype")

superName(func, freeVariables) ==
    makeLexicallyUniqueName(
        IF ExtendsClause(func) # "" THEN ExtendsClause(func) ELSE "_super",
        SetOf(Names(freeVariables)) \cup {boundThisName(freeVariables).name})

withBoundThis(S1) == [S |-> S1, boundThis |-> <<S1.ret>>, superValue |-> <<>>]

\* const boundThis = "this" in props ? await serializeValue(props.this, ...) : undefined
serializeBoundThis(props, illegalNames, S, active) ==
    IF props.hasThis
    THEN withBoundThis(serializeValue(props.this, illegalNames, S, active))
    ELSE [S |-> S, boundThis |-> <<>>, superValue |-> <<>>]

withSuperValue(acc, S2) == [acc EXCEPT !.S = S2, !.superValue = <<S2.ret>>]

\* superName = makeLexicallyUniqueName(...); superValue = await serializeValue(prototype, ...)
serializeSuper(func, freeVariables, illegalNames, acc, active) ==
    IF acc.S.status # "ok" \/ ~hasSuper(func)
    THEN acc
    ELSE IF superName(func, freeVariables).spins
    THEN [acc EXCEPT !.S.status = "diverged"]
    ELSE withSuperValue(acc, serializeValue(MetaPrototypeOf(func), illegalNames,
                                            acc.S, active))

\* The statement `const <closureName> = ((<params>) => <func>[.bind(_self)])(<args>)`.
emitClosure(closureName, func, props, freeVariables, acc) ==
    IF acc.S.status # "ok"
    THEN acc.S
    ELSE LET self == boundThisName(freeVariables).name
             params == (IF props.hasThis THEN <<self>> ELSE <<>>)
                       \o (IF hasSuper(func)
                           THEN <<superName(func, freeVariables).name>>
                           ELSE <<>>)
                       \o Names(freeVariables)
             args == acc.boundThis \o acc.superValue \o Values(freeVariables)
             bind == IF props.hasThis THEN <<self>> ELSE <<>>
         IN  emit(acc.S, <<PrintedFrom(
                               ClosureStatement(closureName, func, params, args, bind),
                               closureStmt(func))>>)

createClosureStatement(closureName, func, props, freeVariables, illegalNames, S, active) ==
    IF S.status # "ok"
    THEN S
    ELSE IF boundThisName(freeVariables).spins
    THEN [S EXCEPT !.status = "diverged"]
    ELSE emitClosure(
             closureName, func, props, freeVariables,
             serializeSuper(func, freeVariables, illegalNames,
                            serializeBoundThis(props, illegalNames, S, active),
                            active))

(***************************************************************************)
(* The inner serializeFunction(func, props): a native function is          *)
(* unwrapped to its bound target or rejected; any other function gets a    *)
(* name, is cached, parsed and analysed, has its free variables            *)
(* serialized and its closure statement emitted.                           *)
(***************************************************************************)
\* return ts.factory.createIdentifier(closureName)
returnClosure(closureName, S3) ==
    IF S3.status # "ok" THEN S3 ELSE return(S3, Identifier(closureName))

serializeFunctionInner(func, props, S0, active) ==
    IF S0.status # "ok" THEN S0
    ELSE
    LET S == [S0 EXCEPT !.called = @ \cup {func}]
    IN
    IF isNativeFunction(FuncString(func))
    THEN IF isBoundFunction(func) /\ getFunctionInternals(func).target # ""
         THEN serializeFunctionInner(
                  getFunctionInternals(func).target,
                  [NoProps EXCEPT !.hasThis = TRUE,
                                  !.this = getFunctionInternals(func).this],
                  S, active)
         ELSE throw(S, "Cannot handle native function")
    ELSE
        LET nn == IF props.variableName # ""
                  THEN [name |-> props.variableName, S |-> S]
                  ELSE nextVarName(S, {})
            closureName == nn.name
            S1 == [nn.S EXCEPT !.valueCache = (func :> closureName) @@ @]
            free == getFreeVariables(func)
            freeVariables == free.list
            illegalNames == SetOf(Names(freeVariables))
                            \cup getFunctionIdentifiers(func)
        IN  IF options.preProcess = "not a SourceFile"
            THEN throw(S1, "preProcess did not return a SourceFile")
            ELSE IF ParsedForm(func) = "none"
            THEN throw(S1, "SourceFile did not contain a FunctionDeclaration")
            ELSE IF free.threw
            THEN throw(S1, "[[Scopes]] internal property is not defined")
            ELSE returnClosure(
                     closureName,
                     createClosureStatement(
                         closureName, func, props, freeVariables, illegalNames,
                         serializeFreeVariables(freeVariables, 1, illegalNames,
                                                S1, active),
                         active))

(***************************************************************************)
(* The probe's requests.  inflightContext holds two scratch tables,        *)
(* `functions` and `calls`, and a counter of ids for each.                 *)
(***************************************************************************)
createInflightContext ==
    [functions |-> {}, currentFunctionId |-> 0, calls |-> {}, currentCallId |-> 0]

\* A variant of the id counters' step that hands out the same id again.
SameId(counter) == counter

\* currentFunctionId++ and currentCallId++
NextId(counter) == counter + 1

(***************************************************************************)
(* The closure registry of src/src/globals.ts.  An extractor is the        *)
(* function registered as `captured`: `form` is what its source text       *)
(* parses to, `elements` are the elements of its array literal (each an    *)
(* expression, possibly spread, or a hole), and `xs` is the list the        *)
(* variable "xs" holds.  The variables "a" and "b" hold an object and a    *)
(* string.                                                                 *)
(***************************************************************************)
MaxElements == 2

NoCall == [op |-> "", func |-> "", threw |-> "", returned |-> <<>>]

Hole == [type |-> "undefined", value |-> "", spread |-> FALSE]
Elements ==
    {[type |-> "Identifier", value |-> "a", spread |-> FALSE],
     [type |-> "Identifier", value |-> "b", spread |-> FALSE],
     [type |-> "NumericLiteral", value |-> "1", spread |-> FALSE],
     [type |-> "Identifier", value |-> "xs", spread |-> TRUE],
     Hole}

ArrowReturningArray ==
    [stmt |-> "ExpressionStatement", expression |-> "ArrowFunctionExpression",
     body |-> "ArrayExpression"]
Forms ==
    {ArrowReturningArray,
     [ArrowReturningArray EXCEPT !.body = "BlockStatement"],
     [ArrowReturningArray EXCEPT !.body = "Identifier"],
     [ArrowReturningArray EXCEPT !.stmt = "FunctionDeclaration"]}

Lists == {<<>>, <<Str("x")>>, <<Str("x"), Str("y")>>}

Extractors ==
    {e \in [form : Forms, elements : SeqsUpTo(Elements, MaxElements), xs : Lists] :
        /\ (e.form # ArrowReturningArray => e.elements = <<>>)
        /\ ((\A n \in 1..Len(e.elements) : ~e.elements[n].spread) => e.xs = <<>>)}

\* closure.captured(): the value of the array literal.
Evaluate(element, xs) ==
    IF element.spread THEN xs
    ELSE IF element.type = "undefined" THEN <<Undefined>>
    ELSE IF element.type = "NumericLiteral" THEN <<[k |-> "number", id |-> element.value]>>
    ELSE IF element.value \in {"a", "o1"} THEN <<Ref("o1")>>
    ELSE <<Str("hi")>>

RECURSIVE Flatten(_)
Flatten(lists) ==
    IF lists = <<>> THEN <<>> ELSE Head(lists) \o Flatten(Tail(lists))

captured(extractor) ==
    Flatten([n \in 1..Len(extractor.elements) |->
                Evaluate(extractor.elements[n], extractor.xs)])

\* Object.fromEntries(entries): a later entry of a name replaces an earlier one.
fromEntries(names, values) ==
    [name \in {names[n] : n \in 1..Len(names)} |->
        values[CHOOSE n \in 1..Len(names) :
                  names[n] = name /\ \A m \in (n + 1)..Len(names) : names[m] # name]]

\* A variant of closures.has(func) that never finds the function.
hasNever(map, func) == FALSE

\* closures.has(func), parsedClosureCache.has(func)
has(map, func) == func \in DOMAIN map

\* map.set(func, value)
set(map, func, value) ==
    [x \in DOMAIN map \cup {func} |-> IF x = func THEN value ELSE map[x]]

\* What the first getClosure call for an entry makes of it: the error it
\* throws, or the record it caches.  (The text of a function parses to one
\* statement, so the test of ast.body.length is not among the errors.)
parseClosure(extractor) ==
    LET elements == extractor.elements
        variableValues == captured(extractor)
    IN  IF extractor.form.stmt # "ExpressionStatement"
        THEN [threw |-> "expected an ExpressionStatement", captured |-> <<>>]
        ELSE IF extractor.form.expression # "ArrowFunctionExpression"
        THEN [threw |-> "expected an ArrowFunctionExpression", captured |-> <<>>]
        ELSE IF extractor.form.body # "ArrayExpression"
        THEN [threw |-> "expected an ArrayExpression", captured |-> <<>>]
        ELSE IF Len(elements) # Len(variableValues)
        THEN [threw |-> "expected ArrayExpression to have as many elements",
              captured |-> <<>>]
        ELSE IF \E n \in 1..Len(elements) : elements[n].type # "Identifier"
        THEN [threw |-> "expected item in ArrayExpression to be an Identifier",
              captured |-> <<>>]
        ELSE [threw |-> "",
              captured |-> fromEntries([n \in 1..Len(elements) |-> elements[n].value],
                                       variableValues)]

(***************************************************************************)
(* The free-variable analysis of src/src/free-variables.ts on the syntax   *)
(* tree of a function.  A node is a record: `type` is its syntax kind,     *)
(* `name` the text of the identifier it is or declares, `flags` the        *)
(* keyword of a variable statement, `initializer` whether its declaration  *)
(* has one, `statements` the statements of a block or function body, and   *)
(* `parent` the kind of its parent where the analysis looks at it.         *)
(***************************************************************************)
MaxStatements == 2

Node(type) ==
    [type |-> type, name |-> "", flags |-> "", initializer |-> FALSE,
     statements |-> <<>>, parent |-> ""]

\* `name;`
ExpressionStatement(name) == [Node("ExpressionStatement") EXCEPT !.name = name]
\* `function name() {}`
FunctionDeclaration(name) == [Node("FunctionDeclaration") EXCEPT !.name = name]
\* `let name;`, `const name = 1;`, `var name;`, `var name = 1;` ...
VariableStatement(flags, name, initializer) ==
    [Node("VariableStatement") EXCEPT
        !.flags = flags, !.name = name, !.initializer = initializer]
\* `{ stmts }`
Block(stmts) == [Node("Block") EXCEPT !.statements = stmts]
\* `function () { stmts }`
FunctionExpression(stmts) == [Node("FunctionExpression") EXCEPT !.statements = stmts]

IdentifierNode(name, parent) ==
    [Node("Identifier") EXCEPT !.name = name, !.parent = parent]

\* ts.forEachChild(node, ...): the children of a node, in order.
Children(node) ==
    IF node.type = "FunctionExpression" THEN <<Block(node.statements)>>
    ELSE IF node.type = "FunctionDeclaration"
    THEN <<IdentifierNode(node.name, "FunctionDeclaration"), Block(<<>>)>>
    ELSE IF node.type = "ExpressionStatement"
    THEN <<IdentifierNode(node.name, "ExpressionStatement")>>
    ELSE IF node.type = "VariableStatement"
    THEN <<[node EXCEPT !.type = "VariableDeclarationList"]>>
    ELSE IF node.type = "VariableDeclarationList"
    THEN <<[node EXCEPT !.type = "VariableDeclaration"]>>
    ELSE IF node.type = "VariableDeclaration"
    THEN <<IdentifierNode(node.name, "VariableDeclaration")>>
         \o (IF node.initializer THEN <<Node("NumericLiteral")>> ELSE <<>>)
    ELSE <<>>

\* A variant of getBindingNames that hoists nothing out of a block.
getBindingNamesOfStatementsOnly(binding) ==
    IF binding.type = "Block" THEN {} ELSE {binding.name}

\* getBindingNames(binding): for a block, the names of its function
\* declarations and of its `var` declarations without an initializer; for a
\* declaration, the name it declares.
getBindingNames(binding) ==
    IF binding.type = "Block"
    THEN {binding.statements[n].name :
            n \in {m \in 1..Len(binding.statements) :
                     \/ binding.statements[m].type = "FunctionDeclaration"
                     \/ /\ binding.statements[m].type = "VariableStatement"
                        /\ binding.statements[m].flags \notin {"const", "let"}
                        /\ ~binding.statements[m].initializer}}
    ELSE {binding.name}

\* isFreeVariable(node, lexicalScope)
isFreeVariable(node, lexicalScope) ==
    /\ node.type = "Identifier"
    /\ node.parent \notin {"FunctionDeclaration", "FunctionExpression",
                           "ClassDeclaration", "ClassExpression",
                           "MethodDeclaration", "Parameter"}
    /\ node.parent # "VariableDeclaration"
    /\ node.name \notin lexicalScope

\* The record made for a free identifier; `at` is not part of it: it records
\* the statement the identifier stands in, as the path of statement numbers.
FreeVariable(func, name, at) ==
    [variableName |-> name,
     variableValue |-> getFreeVariableValue(func, name).val,
     at |-> at]

RECURSIVE _discoverFreeVariables(_, _, _)
RECURSIVE collectEachChild(_, _, _, _)
RECURSIVE discoverStatements(_, _, _, _)

\* collectEachChild(node, lexicalScope, _discoverFreeVariables), from child n on
collectEachChild(children, n, lexicalScope, at) ==
    IF n > Len(children)
    THEN <<>>
    ELSE _discoverFreeVariables(children[n], lexicalScope, at)
         \o collectEachChild(children, n + 1, lexicalScope, at)

\* node.statements.flatMap(...) of the block branch, from statement n on: a
\* variable statement adds its names to the scope of the statements after it.
discoverStatements(stmts, n, lexicalScope, at) ==
    IF n > Len(stmts)
    THEN <<>>
    ELSE _discoverFreeVariables(stmts[n], lexicalScope, Append(at, n))
         \o discoverStatements(
                stmts, n + 1,
                IF stmts[n].type \in {"VariableStatement", "ClassDeclaration"}
                THEN lexicalScope \cup getBindingNames(stmts[n])
                ELSE lexicalScope,
                at)

_discoverFreeVariables(node, lexicalScope, at) ==
    IF node.type \in {"FunctionDeclaration", "FunctionExpression", "ArrowFunction",
                      "Constructor"}
    THEN collectEachChild(
             Children(node), 1,
             lexicalScope \cup (IF node.name # "" THEN {node.name} ELSE {}), at)
    ELSE IF node.type = "Block"
    THEN discoverStatements(node.statements, 1,
                            lexicalScope \cup getBindingNames(node), at)
    ELSE IF node.type \in {"VariableDeclaration", "VariableDeclarationList"}
    THEN collectEachChild(Children(node), 1,
                          lexicalScope \cup getBindingNames(node), at)
    ELSE IF isFreeVariable(node, lexicalScope)
    THEN <<FreeVariable("h", node.name, at)>>
    ELSE collectEachChild(Children(node), 1, lexicalScope, at)

\* The functions analysed: `function () { ... }` with up to MaxStatements
\* statements, each a reference to "p", a declaration of "p", or a block of
\* one or two of these.
AnalysedNames == {"p"}
SimpleStatements ==
    {ExpressionStatement(name) : name \in AnalysedNames}
    \cup {FunctionDeclaration(name) : name \in AnalysedNames}
    \cup {VariableStatement(d[1], name, d[2]) :
            d \in {<<"let", FALSE>>, <<"let", TRUE>>, <<"const", TRUE>>,
                   <<"var", FALSE>>, <<"var", TRUE>>},
            name \in AnalysedNames}
NestedBlocks ==
    {Block(<<stmt>>) : stmt \in SimpleStatements}
    \cup {Block(<<pair[1], pair[2]>>) : pair \in SimpleStatements \X SimpleStatements}
FunctionNodes ==
    {FunctionExpression(stmts) :
        stmts \in SeqsUpTo(SimpleStatements \cup NestedBlocks, MaxStatements)}

NoFunction == Node("none")
NotAnalysed == [done |-> FALSE, freeVariables |-> <<>>]

\* The entry the load-time transform registers for a function "g" that
\* captures "o1": the extractor `() => [o1]`.
RegisteredForG ==
    "g" :> [form |-> ArrowReturningArray, xs |-> <<>>,
            elements |-> <<[type |-> "Identifier", value |-> "o1", spread |-> FALSE]>>]

(***************************************************************************)
(* The inputs of the model: the root function, the options, and the parts  *)
(* of the heap that vary.  A part of the heap the root cannot reach keeps  *)
(* its default.                                                            *)
(***************************************************************************)

RootFunctions == {"f", "bf", "nat"}

DefaultOptions ==
    [isFactoryFunction |-> FALSE, preProcess |-> "none", postProcess |-> "none",
     preSerializeValue |-> "none"]
OptionSets ==
    {DefaultOptions,
     [DefaultOptions EXCEPT !.isFactoryFunction = TRUE],
     [DefaultOptions EXCEPT !.preProcess = "SourceFile"],
     [DefaultOptions EXCEPT !.preProcess = "not a SourceFile"],
     [DefaultOptions EXCEPT !.postProcess = "transform"],
     [DefaultOptions EXCEPT !.preSerializeValue = "o2 for o1"],
     [DefaultOptions EXCEPT !.preSerializeValue = "h for g"]}

RootNames == {"o1", "g", "bf", "Object", "f", "u"}

Internals ==
    {NoInternals}
    \cup [target : {"g"}, this : {Ref("o1")}, args : {<<>>, <<Str("x")>>}]
    \cup [target : {"nat"}, this : {Ref("o1")}, args : {<<>>}]

GDefault == [idents |-> <<>>, form |-> "FunctionDeclaration", scopes |-> TRUE]
GConfigs ==
    {GDefault,
     [GDefault EXCEPT !.idents = <<"o1">>],
     [GDefault EXCEPT !.idents = <<"f">>],
     [GDefault EXCEPT !.idents = <<"nat">>],
     [GDefault EXCEPT !.idents = <<"console">>],
     [GDefault EXCEPT !.idents = <<"arr">>],
     [GDefault EXCEPT !.idents = <<"s">>],
     [GDefault EXCEPT !.idents = <<"_self">>],
     [GDefault EXCEPT !.idents = <<"_self", "_self0">>],
     [GDefault EXCEPT !.idents = <<"o1">>, !.scopes = FALSE],
     [GDefault EXCEPT !.form = "none"],
     [GDefault EXCEPT !.idents = <<"h">>, !.form = "ClassDeclaration"]}

\* The own properties of "o1": none, itself, "o2", the root, a primitive and
\* "o2", or "g".
O1Properties(withG) ==
    {<<>>, <<Ref("o1")>>, <<Ref("o2")>>, <<Ref("f")>>, <<Str("hi"), Ref("o2")>>}
    \cup (IF withG THEN {<<Ref("g")>>} ELSE {})

(***************************************************************************)
(* parseFunctionString.  A source text is a sequence of tokens: the        *)
(* keyword `function`, the identifier `async`, a name with a parameter     *)
(* list `foo()`, and a block `{}`.  The parser recovers from errors: a     *)
(* function declaration takes the keyword, then a name with parameters or  *)
(* a name alone, then a body if one follows, and ends where the next token *)
(* fits none of these; `async` before `function` is a modifier of the      *)
(* declaration; anything else is a statement of its own, so that a method  *)
(* `foo() {}` parses as [CallExpression, Block] and `async foo() {}` as    *)
(* [Identifier(async), CallExpression, Block].                             *)
(***************************************************************************)
MaxTokens == 4

\* The depth of recursion at which the engine's call stack is exhausted.
MaxStack == 3

Tokens == {"function", "async", "foo()", "{}"}

AfterName(text, i) ==
    IF i <= Len(text) /\ text[i] \in {"foo()", "async"} THEN i + 1 ELSE i

AfterBody(text, i) ==
    IF i <= Len(text) /\ text[i] = "{}" THEN i + 1 ELSE i

\* Where the statement that starts at token i ends.
EndOfStatement(text, i) ==
    IF text[i] = "function"
    THEN AfterBody(text, AfterName(text, i + 1))
    ELSE IF text[i] = "async" /\ i < Len(text) /\ text[i + 1] = "function"
    THEN AfterBody(text, AfterName(text, i + 2))
    ELSE i + 1

RECURSIVE StatementsFrom(_, _)
StatementsFrom(text, i) ==
    IF i > Len(text) THEN 0
    ELSE 1 + StatementsFrom(text, EndOfStatement(text, i))

\* ts.createSourceFile("", funcString, ...): sf.statements.length
createSourceFile(text) == [statements |-> StatementsFrom(text, 1)]

\* Whether the function stops calling itself: it never does by itself, only
\* the call stack ends the recursion.
StackExhausted(made) == made >= MaxStack

NotParsing ==
    /\ sourceText = <<>>
    /\ retries = 0
    /\ parseResult = "not called"

BeforeCall ==
    /\ root \in RootFunctions
    /\ options \in OptionSets
    /\ \E fi \in (IF root = "f" THEN SeqsUpTo(RootNames, MaxFree) ELSE {<<>>}) :
       \E bi \in (IF root = "bf" \/ "bf" \in SetOf(fi) THEN Internals ELSE {NoInternals}) :
       LET withG == "g" \in SetOf(fi) \/ bi.target = "g"
       IN
       \E gc \in (IF withG THEN GConfigs ELSE {GDefault}) :
       LET withO1 == "o1" \in SetOf(fi) \/ bi.target # "" \/ "o1" \in SetOf(gc.idents)
       IN
       \E p1 \in (IF withO1 THEN O1Properties(withG) ELSE {<<>>}) :
       LET withO2 == "o2" \in SetOf(fi) \/ Ref("o2") \in SetOf(p1)
                     \/ (options.preSerializeValue = "o2 for o1" /\ withO1)
       IN
       \E p2 \in (IF withO2 THEN {<<>>, <<Ref("o1")>>} ELSE {<<>>}) :
          /\ idents = [func \in Functions |->
                         IF func = "f" THEN fi ELSE IF func = "g" THEN gc.idents ELSE <<>>]
          /\ internals = bi
          /\ gform = gc.form
          /\ gscopes = gc.scopes
          /\ closures \in (IF gc.scopes THEN {<<>>} ELSE {<<>>, RegisteredForG})
          /\ ownProps = [obj \in PlainObjects |-> IF obj = "o1" THEN p1 ELSE p2]
    /\ status = "pending"
    /\ error = ""
    /\ statements = <<>>
    /\ valueCache = <<>>
    /\ called = {}
    /\ output = <<>>
    /\ arrival = "in order"
    /\ calls = 0
    /\ previous = <<>>
    /\ mutated = FALSE
    /\ tasks = <<>>
    /\ context = createInflightContext
    /\ parsedClosureCache = <<>>
    /\ lastCall = NoCall

Init ==
    /\ BeforeCall
    /\ analysed = NoFunction
    /\ discovered = NotAnalysed
    /\ NotParsing

(***************************************************************************)
(* The exported serializeFunction(func, serializeProps): run the inner     *)
(* serializeFunction on the root with a fresh name generator, statement    *)
(* list and cache, and return the statements followed by the export line.  *)
(***************************************************************************)
NoOutput == <<>>

\* A variant of the export line that always carries the call suffix.
ExportLineAlwaysCalled(handler) ==
    [kind |-> "export", handler |-> handler.v, call |-> "()"]

ExportLine(handler) ==
    [kind |-> "export", handler |-> handler.v,
     call |-> IF options.isFactoryFunction THEN "()" ELSE ""]
ModuleText(stmts, handler) == stmts \o <<ExportLine(handler)>>

\* A variant of Result that hands back whatever was emitted, however the
\* inner call ended.
ResultOfAnyCall(S) == ModuleText(S.statements, S.ret)

\* What the caller of the exported serializeFunction receives when the inner
\* call ended in state S: the module if it returned, nothing if it threw.
Result(S) ==
    IF S.status = "ok" THEN ModuleText(S.statements, S.ret) ELSE NoOutput

\* The assignments to the call's results, once the inner call has ended in S.
Ends(S) ==
    /\ status' = S.status
    /\ error' = S.error
    /\ statements' = S.statements
    /\ valueCache' = S.valueCache
    /\ called' = S.called
    /\ output' = Result(S)

Serialize ==
    /\ status = "pending"
    /\ Ends(serializeFunctionInner(root, NoProps, InitialCall, {}))
    /\ calls' = calls + 1
    /\ UNCHANGED <<heap, arrival, previous, mutated, probe, registry, analysis, parsing>>

Next == Serialize

Spec == Init /\ [][Next]_vars

(***************************************************************************)
(* The probe at work for the root of a serialize call.  getFreeVariables   *)
(* starts one getFreeVariableValue call per free identifier and awaits     *)
(* them together; getFunctionInternals of a bound function asks for the    *)
(* function's id and internal properties and then starts one               *)
(* getValueForObjectId call for each of [[BoundThis]], [[BoundArgs]] and   *)
(* [[TargetFunction]] and awaits these together.  Each asynchronous call   *)
(* is a task; a task whose `pc` is the name of a protocol method has       *)
(* posted that request and awaits its return.                              *)
(***************************************************************************)
Task(kind) == [kind |-> kind, pc |-> "start", id |-> 0]

Methods == {"Runtime.evaluate", "Runtime.getProperties", "Runtime.callFunctionOn"}

BoundInternals == <<"[[BoundThis]]", "[[BoundArgs]]", "[[TargetFunction]]">>

\* Promise.all(_discoverFreeVariables(node, lexicalScope))
StartFreeVariables ==
    /\ tasks = <<>>
    /\ ~isNativeFunction(FuncString(root))
    /\ idents[root] # <<>>
    /\ tasks' = [n \in 1..Len(idents[root]) |-> Task("getFreeVariableValue")]
    /\ UNCHANGED <<heap, ended, host, context, registry, analysis, parsing>>

\* getFunctionInternals(func) for a function whose name starts with "bound "
StartInternals ==
    /\ tasks = <<>>
    /\ isBoundFunction(root)
    /\ tasks' = <<Task("getFunctionInternals")>>
    /\ UNCHANGED <<heap, ended, host, context, registry, analysis, parsing>>

\* getFunctionId: draw an id, store the function under it, post Runtime.evaluate.
PostEvaluate(t) ==
    /\ tasks[t].kind \in {"getFreeVariableValue", "getFunctionInternals"}
    /\ tasks[t].pc = "start"
    /\ tasks' = [tasks EXCEPT ![t].pc = "Runtime.evaluate",
                              ![t].id = context.currentFunctionId]
    /\ context' = [context EXCEPT
                      !.functions = @ \cup {context.currentFunctionId},
                      !.currentFunctionId = NextId(@)]
    /\ UNCHANGED <<heap, ended, host, registry, analysis, parsing>>

\* A variant of getFunctionId that deletes its entry only before it returns.
deleteBeforeReturn(functions, name, failed) ==
    IF failed THEN functions ELSE functions \ {name}

\* `finally { delete context.functions[currentFunctionName] }`
deleteFinally(functions, name, failed) == functions \ {name}

\* getFunctionId resumes: it returns the object id, or throws because the
\* request failed or did not yield a function with an object id; either way
\* the `finally` block runs.
ReturnEvaluate(t) ==
    /\ tasks[t].pc = "Runtime.evaluate"
    /\ \E failed \in BOOLEAN :
          /\ tasks' = [tasks EXCEPT ![t].pc = IF failed THEN "failed" ELSE "functionId"]
          /\ context' = [context EXCEPT
                            !.functions = deleteFinally(@, tasks[t].id, failed)]
    /\ UNCHANGED <<heap, ended, host, registry, analysis, parsing>>

\* getInternalProperties: post Runtime.getProperties.
PostGetProperties(t) ==
    /\ tasks[t].pc = "functionId"
    /\ tasks' = [tasks EXCEPT ![t].pc = "Runtime.getProperties"]
    /\ UNCHANGED <<heap, ended, host, context, registry, analysis, parsing>>

\* getInternalProperties resumes.  getFreeVariableValue reads [[Scopes]] and
\* returns; getFunctionInternals starts getValueForObjectId three times.
ReturnGetProperties(t) ==
    /\ tasks[t].pc = "Runtime.getProperties"
    /\ \E failed \in BOOLEAN :
          tasks' = IF failed
                   THEN [tasks EXCEPT ![t].pc = "failed"]
                   ELSE IF tasks[t].kind = "getFreeVariableValue"
                   THEN [tasks EXCEPT ![t].pc = "done"]
                   ELSE [tasks EXCEPT ![t].pc = "Promise.all"]
                        \o [n \in 1..Len(BoundInternals) |-> Task("getValueForObjectId")]
    /\ UNCHANGED <<heap, ended, host, context, registry, analysis, parsing>>

\* getValueForObjectId: draw a table id and post Runtime.callFunctionOn; the
\* function it posts stores `this` in calls[tableId] when the runtime runs
\* it, and stores nothing when the request fails.
PostCallFunctionOn(t) ==
    /\ tasks[t].kind = "getValueForObjectId"
    /\ tasks[t].pc = "start"
    /\ tasks' = [tasks EXCEPT ![t].pc = "Runtime.callFunctionOn",
                              ![t].id = context.currentCallId]
    /\ \E stored \in BOOLEAN :
          context' = [context EXCEPT
                         !.calls = IF stored THEN @ \cup {context.currentCallId} ELSE @,
                         !.currentCallId = NextId(@)]
    /\ UNCHANGED <<heap, ended, host, registry, analysis, parsing>>

\* getValueForObjectId resumes: it throws if the request failed or
\* calls[tableId] is not there, else it reads calls[tableId] and deletes it.
ReturnCallFunctionOn(t) ==
    /\ tasks[t].pc = "Runtime.callFunctionOn"
    /\ IF tasks[t].id \in context.calls
       THEN /\ tasks' = [tasks EXCEPT ![t].pc = "done"]
            /\ context' = [context EXCEPT !.calls = @ \ {tasks[t].id}]
       ELSE /\ tasks' = [tasks EXCEPT ![t].pc = "failed"]
            /\ UNCHANGED context
    /\ UNCHANGED <<heap, ended, host, registry, analysis, parsing>>

\* getFunctionInternals resumes once all three values are there, or as soon
\* as one of the three calls has thrown.
ReturnInternals(t) ==
    /\ tasks[t].pc = "Promise.all"
    /\ \/ /\ \A u \in 1..Len(tasks) :
                tasks[u].kind = "getValueForObjectId" => tasks[u].pc = "done"
          /\ tasks' = [tasks EXCEPT ![t].pc = "done"]
       \/ /\ \E u \in 1..Len(tasks) :
                tasks[u].kind = "getValueForObjectId" /\ tasks[u].pc = "failed"
          /\ tasks' = [tasks EXCEPT ![t].pc = "failed"]
    /\ UNCHANGED <<heap, ended, host, context, registry, analysis, parsing>>

\* The probe is asked about one root: a function with its free identifiers,
\* or the bound wrapper.
ProbeInit ==
    /\ Init
    /\ options = DefaultOptions
    /\ root \in {"f", "bf"}
    /\ ownProps = [obj \in PlainObjects |-> <<>>]
    /\ idents["g"] = <<>>
    /\ gform = "FunctionDeclaration"
    /\ gscopes

ProbeNext ==
    \/ StartFreeVariables
    \/ StartInternals
    \/ \E t \in 1..Len(tasks) :
          \/ PostEvaluate(t)
          \/ ReturnEvaluate(t)
          \/ PostGetProperties(t)
          \/ ReturnGetProperties(t)
          \/ PostCallFunctionOn(t)
          \/ ReturnCallFunctionOn(t)
          \/ ReturnInternals(t)

ProbeSpec == ProbeInit /\ [][ProbeNext]_vars

(***************************************************************************)
(* The operations of the closure registry.                                 *)
(***************************************************************************)
RegisteredFunctions == {"f", "g"}

\* What is registered: any extractor for "f"; for "g" one of the two of the
\* tests, `() => [a, b]` and `() => []`.
TestExtractors ==
    {[form |-> ArrowReturningArray, elements |-> <<>>, xs |-> <<>>],
     [form |-> ArrowReturningArray, xs |-> <<>>,
      elements |-> <<[type |-> "Identifier", value |-> "a", spread |-> FALSE],
                     [type |-> "Identifier", value |-> "b", spread |-> FALSE]>>]}
ExtractorsFor(func) == IF func = "f" THEN Extractors ELSE TestExtractors

registerClosure(func, extractor) ==
    /\ IF has(closures, func)
       THEN /\ lastCall' = [NoCall EXCEPT
                               !.op = "registerClosure", !.func = func,
                               !.threw = "illegal override of function captured closure"]
            /\ UNCHANGED closures
       ELSE /\ closures' = set(closures, func, extractor)
            /\ lastCall' = [NoCall EXCEPT !.op = "registerClosure", !.func = func]
    /\ UNCHANGED <<heap, ended, host, probe, parsedClosureCache, analysis, parsing>>

\* The assignments of a getClosure call that found the entry not yet parsed.
cacheClosure(func, parsed) ==
    IF parsed.threw # ""
    THEN /\ lastCall' = [NoCall EXCEPT !.op = "getClosure", !.func = func,
                                        !.threw = parsed.threw]
         /\ UNCHANGED parsedClosureCache
    ELSE /\ parsedClosureCache' = set(parsedClosureCache, func, parsed.captured)
         /\ lastCall' = [NoCall EXCEPT !.op = "getClosure", !.func = func,
                                        !.returned = <<parsed.captured>>]

getClosure(func) ==
    /\ IF ~has(closures, func)
       THEN /\ lastCall' = [NoCall EXCEPT !.op = "getClosure", !.func = func]
            /\ UNCHANGED parsedClosureCache
       ELSE IF ~has(parsedClosureCache, func)
       THEN cacheClosure(func, parseClosure(closures[func]))
       ELSE /\ lastCall' = [NoCall EXCEPT !.op = "getClosure", !.func = func,
                                           !.returned = <<parsedClosureCache[func]>>]
            /\ UNCHANGED parsedClosureCache
    /\ UNCHANGED <<heap, ended, host, probe, closures, analysis, parsing>>

RegistryInit ==
    /\ Init
    /\ root = "nat"
    /\ options = DefaultOptions

RegistryNext ==
    \E func \in RegisteredFunctions :
        \/ \E extractor \in ExtractorsFor(func) : registerClosure(func, extractor)
        \/ getClosure(func)

RegistrySpec == RegistryInit /\ [][RegistryNext]_vars

(***************************************************************************)
(* Several calls.  The name generator, the statement list and the cache    *)
(* are locals of the exported serializeFunction, so every call starts from *)
(* InitialCall.  Between two calls the host program may add a property to  *)
(* an object (the test "Serialize mutable objects by value at the time of  *)
(* capture"), and the probe's answers may complete in another order.       *)
(***************************************************************************)
MaxCalls == 2

\* The heaps the host can have made of the present one before it calls again.
HostChanges ==
    {ownProps}
    \cup {[ownProps EXCEPT ![obj] = Append(@, Str("hi"))] : obj \in PlainObjects}

CallAgain ==
    /\ status \in {"ok", "error"}
    /\ calls < MaxCalls
    /\ \E changed \in HostChanges :
          /\ ownProps' = changed
          /\ mutated' = (changed # ownProps)
    /\ arrival' \in Arrivals
    /\ previous' = output
    /\ status' = "pending"
    /\ UNCHANGED <<idents, internals, gform, gscopes, root, options,
                   error, statements, valueCache, called, output, calls, probe,
                   registry, analysis, parsing>>

\* The first call is one of the calls of Spec that take the whole path: an
\* arrow function as the root, no rejecting transform, no bound wrapper.
RepeatInit ==
    /\ Init
    /\ root = "f"
    /\ options.preProcess = "none"
    /\ options.postProcess = "none"
    /\ ~options.isFactoryFunction
    /\ internals = NoInternals
    /\ idents["g"] \in {<<>>, <<"o1">>}
    /\ gform = "FunctionDeclaration"
    /\ gscopes

RepeatNext == Serialize \/ CallAgain

RepeatSpec == RepeatInit /\ [][RepeatNext]_vars

(***************************************************************************)
(* The analysis on its own: getFreeVariables(func, node) for one function  *)
(* node, awaited.                                                          *)
(***************************************************************************)
Discover ==
    /\ analysed # NoFunction
    /\ ~discovered.done
    /\ discovered' =
          [done |-> TRUE,
           freeVariables |-> PromiseAll(Settled(_discoverFreeVariables(analysed, {}, <<>>)))]
    /\ UNCHANGED <<heap, ended, host, probe, registry, analysed, parsing>>

AnalysisInit ==
    /\ BeforeCall
    /\ root = "nat"
    /\ options = DefaultOptions
    /\ analysed \in FunctionNodes
    /\ discovered = NotAnalysed
    /\ NotParsing

AnalysisNext == Discover

AnalysisSpec == AnalysisInit /\ [][AnalysisNext]_vars

(***************************************************************************)
(* One call of parseFunctionString(funcString), the calls it makes of      *)
(* itself included one at a time.                                          *)
(***************************************************************************)
parseFunctionStringCall ==
    /\ parseResult = "parsing"
    /\ LET sf == createSourceFile(sourceText)
       IN  IF sf.statements = 0
           THEN /\ parseResult' = "failed to parse function"
                /\ UNCHANGED <<sourceText, retries>>
           ELSE IF sf.statements = 1
           THEN /\ parseResult' = "SourceFile"
                /\ UNCHANGED <<sourceText, retries>>
           ELSE IF StackExhausted(retries)
           THEN /\ parseResult' = "RangeError: Maximum call stack size exceeded"
                /\ UNCHANGED <<sourceText, retries>>
           ELSE /\ sourceText' = <<"function">> \o sourceText
                /\ retries' = retries + 1
                /\ UNCHANGED parseResult
    /\ UNCHANGED <<heap, ended, host, probe, registry, analysis>>

ParseInit ==
    /\ BeforeCall
    /\ root = "nat"
    /\ options = DefaultOptions
    /\ analysed = NoFunction
    /\ discovered = NotAnalysed
    /\ sourceText \in SeqsUpTo(Tokens, MaxTokens)
    /\ retries = 0
    /\ parseResult = "parsing"

ParseNext == parseFunctionStringCall

ParseSpec == ParseInit /\ [][ParseNext]_vars

(***************************************************************************)
(* Reading the emitted statements.                                         *)
(***************************************************************************)
\* The statement binds a top-level name / binds it to a value.
Declares(stmt) == stmt.kind \in {"var", "object", "closure"}
Initializes(stmt) == stmt.kind \in {"object", "closure"}

\* Names that are not emitted identifiers: they are bound in every module.
GlobalNames == WhitelistedGlobals \cup {"undefined", "null"}

\* The emitted identifiers a statement reads when it runs.  The parameters
\* of a closure wrapper are bound by the wrapper itself.
Reads(stmt) ==
    IF stmt.kind = "export"
    THEN {stmt.handler}
    ELSE ({stmt.exprs[n].v : n \in {m \in 1..Len(stmt.exprs) : stmt.exprs[m].t = "id"}}
          \ GlobalNames)
         \cup (IF stmt.kind = "setProto" THEN {stmt.name} ELSE {})

\* The positions of the statements emitted for a heap value.
Emitted(value) == {n \in 1..Len(statements) : statements[n].val = value}

\* Heap facts, read off the heap and not through the serializer's predicates.
Owns(a, b) == \E n \in 1..Len(ownProps[a]) : ownProps[a][n] = Ref(b)
OnCycle(obj) ==
    Owns(obj, obj) \/ \E other \in PlainObjects : Owns(obj, other) /\ Owns(other, obj)
Resolves(name) == name \in DOMAIN ModuleScope \cup DOMAIN GlobalScope
BoundWrappers == {"bf"}
RootTarget == IF root \in BoundWrappers THEN internals.target ELSE root

(***************************************************************************)
(* C1: within one serialize call every non-primitive value the walk        *)
(* reaches is declared with its value exactly once, however many paths     *)
(* lead to it.  (The hoisting `var` of the same name is not counted.)      *)
(***************************************************************************)
C1_ExactlyOneDeclaration ==
    status = "ok" =>
        \A value \in PlainObjects \cup UserFunctions :
            Emitted(value) # {} =>
                Cardinality({n \in Emitted(value) : Initializes(statements[n])}) = 1

(***************************************************************************)
(* C2: a value graph with a reference cycle among its objects is           *)
(* serialized in finitely many steps, and an object that holds itself is   *)
(* emitted with that property set to its own identifier.                   *)
(***************************************************************************)
C2_CyclesTerminate ==
    (status # "pending" /\ \E obj \in PlainObjects : OnCycle(obj)) =>
        /\ status # "diverged"
        /\ \A n \in 1..Len(statements) :
              (/\ statements[n].kind = "object"
               /\ statements[n].val \in PlainObjects
               /\ Owns(statements[n].val, statements[n].val)
               /\ options.preSerializeValue = "none")
              => \E m \in 1..Len(statements[n].exprs) :
                    statements[n].exprs[m] = Identifier(statements[n].name)

(***************************************************************************)
(* C3: every emitted identifier that a statement of the module or its      *)
(* export line reads is declared by an earlier statement of the module.    *)
(***************************************************************************)
C3_DeclaredBeforeRead ==
    status = "ok" =>
        \A n \in 1..Len(output) :
            \A id \in Reads(output[n]) :
                \E m \in 1..(n - 1) : Declares(output[m]) /\ output[m].name = id

(***************************************************************************)
(* C4: the returned module is the emitted statements followed by exactly   *)
(* one export line; the line names the identifier of the closure declared  *)
(* for the root function, and carries the call suffix "()" if and only if  *)
(* isFactoryFunction is set.                                               *)
(***************************************************************************)
C4_ExportLine ==
    status = "ok" =>
        LET last == output[Len(output)]
        IN  /\ Len(output) = Len(statements) + 1
            /\ SubSeq(output, 1, Len(statements)) = statements
            /\ \A n \in 1..Len(output) : (output[n].kind = "export") <=> (n = Len(output))
            /\ \E n \in 1..Len(statements) :
                  /\ statements[n].kind = "closure"
                  /\ statements[n].fn = RootTarget
                  /\ statements[n].name = last.handler
            /\ last.call \in {"", "()"}
            /\ (last.call = "()") <=> options.isFactoryFunction

\* A factory-mode call that returned a module of several statements.
C4_Witness ==
    /\ status = "ok"
    /\ options.isFactoryFunction
    /\ Len(statements) > 1
    /\ output[Len(output)].call = "()"

(***************************************************************************)
(* C5: a bound function is emitted as its target function with a .bind     *)
(* call whose arguments are the bound receiver followed by every bound     *)
(* argument, in order; the wrapper itself is given no value.               *)
(***************************************************************************)
C5_BindArguments ==
    (status = "ok" /\ "bf" \in called) =>
        /\ \E n \in 1..Len(statements) :
              /\ statements[n].kind = "closure"
              /\ statements[n].fn = internals.target
              /\ Len(statements[n].bind) = 1 + Len(internals.args)
        /\ \A n \in Emitted("bf") : ~Initializes(statements[n])

(***************************************************************************)
(* C6: the emitted module declares no variable for a whitelisted global    *)
(* and holds no copy of it.                                                *)
(***************************************************************************)
C6_NoVariableForGlobals ==
    status = "ok" =>
        \A n \in 1..Len(statements) :
            statements[n].val \notin WhitelistedGlobals \cup {"console"}

(***************************************************************************)
(* C7: a call in which the serialization of some reached value fails is    *)
(* rejected with that failure and hands the caller no module text; a call  *)
(* that returns a module met no such failure.                              *)
(***************************************************************************)
Failures ==
    {"Cannot handle native function",
     "preProcess did not return a SourceFile",
     "SourceFile did not contain a FunctionDeclaration",
     "[[Scopes]] internal property is not defined"}

FailsToSerialize(func) ==
    \/ func \in NativeFunctions /\ (func \notin BoundWrappers \/ internals.target = "")
    \/ func \in UserFunctions /\ options.preProcess = "not a SourceFile"
    \/ func = "g" /\ gform = "none"
    \/ func = "g" /\ ~gscopes /\ idents["g"] # <<>>

C7_FailClosed ==
    /\ status = "error" => output = NoOutput /\ error \in Failures
    /\ status = "ok" => \A func \in called : ~FailsToSerialize(func)
    /\ (status # "pending" /\ \E func \in called : FailsToSerialize(func))
           => status = "error"

\* A call rejected deep in the graph, after statements had been emitted.
C7_Witness ==
    /\ status = "error"
    /\ root = "f"
    /\ Len(statements) > 2
    /\ output = NoOutput

(***************************************************************************)
(* C8 as stated: whenever a native function that is not a bound wrapper    *)
(* is reached in the closure graph, the call is rejected.                  *)
(***************************************************************************)
C8_EveryNativeRejected ==
    (status \in {"ok", "error"}
     /\ \E func \in NativeFunctions \ BoundWrappers : Emitted(func) # {} \/ func \in called)
        => status = "error"

(***************************************************************************)
(* C8, amended: a native function that is not a bound wrapper and is not   *)
(* one of the whitelisted globals is rejected with the native-function     *)
(* error wherever it is reached; a whitelisted global reached as a         *)
(* captured value is not handed to serializeFunction at all.               *)
(***************************************************************************)
C8_NativeRejected ==
    /\ (status # "pending" /\ \E func \in NativeFunctions \ BoundWrappers : func \in called)
           => (status = "error" /\ error = "Cannot handle native function")
    /\ \A func \in NativeFunctions \ (BoundWrappers \cup WhitelistedGlobals) :
           Emitted(func) # {} => func \in called
    /\ \A func \in WhitelistedGlobals : func \notin called

\* A native function reached below the root, and the call rejected for it.
C8_Witness ==
    /\ status = "error"
    /\ error = "Cannot handle native function"
    /\ root = "f"
    /\ "nat" \in called
    /\ "bf" \notin called

C10_UnresolvedLeftAlone ==
    /\ (status # "pending" /\ idents[root] = <<"u">>) => status = "ok"
    /\ status = "ok" =>
          \A n \in 1..Len(statements) :
              statements[n].kind = "closure" =>
                  \A name \in SetOf(statements[n].keys) \cap SetOf(idents[statements[n].fn]) :
                      Resolves(name)
(***************************************************************************)
(* C11: the value cache and the name counter are fresh for every serialize *)
(* call.  A call that follows other calls, and possibly a change of a      *)
(* captured object, numbers its names from the start again, caches only    *)
(* what it serialized itself, and emits every object with the properties   *)
(* the object has at the time of that call (each as the hook, if one is    *)
(* configured, passes it on).                                              *)
(***************************************************************************)
PropertyExpr(value) ==
    IF value.k = "string" THEN {StringLiteral(value.id)}
    ELSE {expr \in {Identifier("v" \o ToString(n)) : n \in 1..Len(statements)} :
            \E m \in Emitted(value.id) : statements[m].name = expr.v}

C11_FreshPerCall ==
    (calls >= 2 /\ status = "ok") =>
        /\ valueCache[root] = "v1"
        /\ output[Len(output)].handler = "v1"
        /\ DOMAIN valueCache \subseteq called
        /\ \A n \in 1..Len(statements) :
              (statements[n].kind = "object" /\ statements[n].val \in PlainObjects) =>
                  /\ Len(statements[n].exprs) = Len(ownProps[statements[n].val])
                  /\ \A k \in 1..Len(statements[n].exprs) :
                        statements[n].exprs[k]
                            \in PropertyExpr(
                                    preSerializeValue(ownProps[statements[n].val][k]))

\* A second call has returned after "o1", which the root captures, was given
\* a property, and the module differs from the one of the first call.
C11_Witness ==
    /\ calls = 2
    /\ status = "ok"
    /\ mutated
    /\ "o1" \in SetOf(idents[root])
    /\ Len(ownProps["o1"]) = 1
    /\ \E n \in Emitted("o1") : statements[n].keys = <<"p1">>
    /\ previous # NoOutput
    /\ previous # output

(***************************************************************************)
(* C12: two serialize calls on the same function, with the same options    *)
(* and no change of the value graph between them, give the caller the same *)
(* module text, in whatever order the probe's answers for the free         *)
(* variables completed during either call.                                 *)
(***************************************************************************)
C12_Deterministic ==
    (calls >= 2 /\ status # "pending" /\ ~mutated) => output = previous

\* A second call returned the module of the first although the answers for
\* its two different free variables completed last-first.
C12_Witness ==
    /\ calls = 2
    /\ status = "ok"
    /\ ~mutated
    /\ arrival = "reversed"
    /\ Len(idents[root]) = 2
    /\ idents[root][1] # idents[root][2]
    /\ output # NoOutput
    /\ output = previous

(***************************************************************************)
(* C13: a configured preSerializeValue hook is applied to a value before   *)
(* the cache is looked up, and what is cached and emitted is the value it  *)
(* returns: nothing is cached or emitted for the original, and after the   *)
(* first reference to the original the replacement is in the cache (if it  *)
(* is a function) and has its statements, which later references use.  (A  *)
(* bound wrapper hands its target to serializeFunction directly, not to    *)
(* the value serializer.)                                                  *)
(***************************************************************************)
\* The value is captured by a function the call reached or is a property of
\* an object the call emitted.
Referenced(value) ==
    \/ \E func \in called :
          \E n \in 1..Len(idents[func]) :
              /\ idents[func][n] \in DOMAIN ModuleScope
              /\ ModuleScope[idents[func][n]] = Ref(value)
    \/ \E obj \in PlainObjects :
          /\ Emitted(obj) # {}
          /\ Ref(value) \in SetOf(ownProps[obj])

C14_ClosureFromPostProcessedAST ==
    (status = "ok" /\ options.postProcess # "none") =>
        \A n \in 1..Len(statements) :
            statements[n].kind = "closure" =>
                /\ statements[n].ast # <<>>
                /\ statements[n].ast[Len(statements[n].ast)] = "postProcess"

(***************************************************************************)
(* C15: an array is emitted as an array.  Besides the hoisting `var`, the  *)
(* statements emitted for an array value are its declaration `var <id> =   *)
(* []` and the additions of its elements in index order: none of them is   *)
(* an object literal or a change of prototype.                             *)
(***************************************************************************)
C15_ArrayEmittedAsArray ==
    status = "ok" =>
        \A n \in Emitted("arr") :
            statements[n].kind \notin {"object", "setProto"}

(***************************************************************************)
(* C16: a set-prototype statement is emitted for an object exactly if its  *)
(* prototype is neither Object.prototype nor Array.prototype, and then     *)
(* names the serialized prototype.  In particular no such statement is     *)
(* emitted for an object whose prototype is Object.prototype.              *)
(***************************************************************************)
DefaultPrototypes == {Ref("ObjectPrototype"), Ref("ArrayPrototype")}

SetsPrototype(n) ==
    /\ statements[n].kind = "setProto"
    /\ statements[n].val \in Objects

C16_SetPrototypeOnlyIfNotDefault ==
    status = "ok" =>
        /\ \A n \in 1..Len(statements) :
              SetsPrototype(n) =>
                  /\ PrototypeOf(statements[n].val) \notin DefaultPrototypes \cup {Null}
                  /\ \E m \in Emitted(PrototypeOf(statements[n].val).id) :
                        statements[n].exprs = <<Identifier(statements[m].name)>>
        /\ \A obj \in Objects :
              (Emitted(obj) # {}
               /\ PrototypeOf(obj) \notin DefaultPrototypes \cup {Null}) =>
                  \E n \in Emitted(obj) : SetsPrototype(n)

(***************************************************************************)
(* C17: after a function that has a `prototype` object (any function but   *)
(* an arrow function) was emitted under an identifier, the module assigns  *)
(* `<identifier>.prototype` the serialized prototype object: a statement   *)
(* of that kind for the identifier follows the closure statement.          *)
(***************************************************************************)
HasPrototypeObject(func) ==
    ParsedForm(func) \in {"FunctionDeclaration", "ClassDeclaration"}

C17_PrototypeAssigned ==
    status = "ok" =>
        \A n \in 1..Len(statements) :
            (statements[n].kind = "closure" /\ HasPrototypeObject(statements[n].fn)) =>
                \E m \in (n + 1)..Len(statements) :
                    /\ statements[m].kind = "assignPrototype"
                    /\ statements[m].name = statements[n].name

(***************************************************************************)
(* C18, as stated: at every moment at most one probe request               *)
(* (Runtime.evaluate, Runtime.getProperties or Runtime.callFunctionOn) is  *)
(* outstanding.                                                            *)
(***************************************************************************)
Outstanding == {t \in 1..Len(tasks) : tasks[t].pc \in Methods}

C18_AtMostOneOutstanding == Cardinality(Outstanding) <= 1

(***************************************************************************)
(* C18, amended: the requests of one chain follow each other, but the      *)
(* chains of several free variables, and the three reads of a bound        *)
(* function's internal values, are outstanding together.  Requests that    *)
(* use a scratch table each hold an id of their own; `functions` holds    *)
(* exactly the ids of the requests outstanding on it, and `calls` holds    *)
(* ids of requests outstanding on it only (of those whose posted function  *)
(* the runtime has run).                                                   *)
(***************************************************************************)
Holding(method) == {t \in 1..Len(tasks) : tasks[t].pc = method}

C18_OutstandingRequestsHoldOwnIds ==
    /\ \A method \in {"Runtime.evaluate", "Runtime.callFunctionOn"} :
          \A t, u \in Holding(method) : t # u => tasks[t].id # tasks[u].id
    /\ context.functions = {tasks[t].id : t \in Holding("Runtime.evaluate")}
    /\ context.calls \subseteq {tasks[t].id : t \in Holding("Runtime.callFunctionOn")}

\* The requests for two free variables of one function are outstanding
\* together, each under its own id.
C18_Witness ==
    /\ Len(idents[root]) = 2
    /\ Holding("Runtime.evaluate") = {1, 2}
    /\ tasks[1].id # tasks[2].id
    /\ context.functions = {0, 1}

(***************************************************************************)
(* C19: registering a function that already has an entry in the closure    *)
(* registry is rejected with an error, and no step of any sequence of      *)
(* registerClosure and getClosure calls removes or replaces an entry.      *)
(***************************************************************************)
IllegalOverride == "illegal override of function captured closure"

C19_EntriesKept ==
    [][/\ \A func \in DOMAIN closures :
             /\ func \in DOMAIN closures'
             /\ closures'[func] = closures[func]
       /\ (lastCall'.op = "registerClosure" /\ lastCall'.func \in DOMAIN closures) =>
             lastCall'.threw = IllegalOverride]_vars

\* A second registration of "f" was rejected while "g" is registered as well.
C19_Witness ==
    /\ lastCall.op = "registerClosure"
    /\ lastCall.func = "f"
    /\ lastCall.threw = IllegalOverride
    /\ DOMAIN closures = {"f", "g"}

(***************************************************************************)
(* C20: getClosure of a registered function returns the record that pairs  *)
(* the i-th identifier of the extractor's array literal with the i-th      *)
(* value the extractor returns, if the extractor is an arrow function      *)
(* whose body is an array literal of bare identifiers (as many as values   *)
(* returned, possibly none); in every other case it fails with an error.   *)
(***************************************************************************)
BareIdentifier(element) == element.type = "Identifier" /\ ~element.spread

WellFormed(extractor) ==
    /\ extractor.form = ArrowReturningArray
    /\ \A n \in 1..Len(extractor.elements) : BareIdentifier(extractor.elements[n])
    /\ Len(extractor.elements) = Len(captured(extractor))

Pairs(record, extractor) ==
    /\ DOMAIN record = {extractor.elements[n].value : n \in 1..Len(extractor.elements)}
    /\ \A n \in 1..Len(extractor.elements) :
          record[extractor.elements[n].value] = captured(extractor)[n]

C20_PairsOrFails ==
    (lastCall.op = "getClosure" /\ lastCall.func \in DOMAIN closures) =>
        IF WellFormed(closures[lastCall.func])
        THEN /\ lastCall.threw = ""
             /\ Len(lastCall.returned) = 1
             /\ Pairs(lastCall.returned[1], closures[lastCall.func])
        ELSE lastCall.threw # ""

(***************************************************************************)
(* C21: when the probe returns no [[Scopes]] for a function and the        *)
(* closure registry holds an entry for that function, the call is not      *)
(* rejected for the missing scopes: it returns, and the function's closure *)
(* is emitted with its free variables bound to the values of the entry.    *)
(***************************************************************************)
ScopesMissing == "[[Scopes]] internal property is not defined"

HasRegistryEntry(func) == has(closures, func)

C21_RegistryFallback ==
    (/\ status # "pending"
     /\ "g" \in called
     /\ ~gscopes
     /\ HasRegistryEntry("g")
     /\ options.preProcess # "not a SourceFile")
        => /\ error # ScopesMissing
           /\ status = "ok"
           /\ \E n \in Emitted("g") :
                 /\ statements[n].kind = "closure"
                 /\ statements[n].exprs
                       = [k \in 1..Len(idents["g"]) |->
                            RawValue(parseClosure(closures["g"]).captured[idents["g"][k]])]

(***************************************************************************)
(* C22: the free-variable list of a function holds every lexical name at   *)
(* most once, however often the identifier occurs in the body, so no       *)
(* emitted wrapper has two parameters of the same name.                    *)
(***************************************************************************)
NoDuplicates(seq) == \A n, m \in 1..Len(seq) : seq[n] = seq[m] => n = m

C22_NamesOnce ==
    status = "ok" =>
        \A n \in 1..Len(statements) :
            statements[n].kind = "closure" => NoDuplicates(statements[n].keys)

(***************************************************************************)
(* C23, as stated: the scope chain is walked from the outermost scope to   *)
(* the innermost and the first scope on that walk that binds the name      *)
(* supplies the value: a free variable bound in several scopes gets the    *)
(* value of the outermost of them.                                         *)
(***************************************************************************)
\* The chain of a function whose scopes the probe returns, innermost first.
ScopeChain == <<ModuleScope, GlobalScope>>
Binders(name) == {n \in 1..Len(ScopeChain) : name \in DOMAIN ScopeChain[n]}
InnermostBinding(name) ==
    ScopeChain[CHOOSE n \in Binders(name) : \A m \in Binders(name) : n <= m][name]
OutermostBinding(name) ==
    ScopeChain[CHOOSE n \in Binders(name) : \A m \in Binders(name) : n >= m][name]

\* The positions of a closure statement's parameters that are free variables
\* of its function bound in some scope.
ResolvedParameters(stmt) ==
    {k \in 1..Len(stmt.keys) :
        stmt.keys[k] \in SetOf(idents[stmt.fn]) /\ Binders(stmt.keys[k]) # {}}

C23_OutermostFirst ==
    status = "ok" =>
        \A n \in 1..Len(statements) :
            statements[n].kind = "closure" =>
                \A k \in ResolvedParameters(statements[n]) :
                    statements[n].exprs[k]
                        = RawValue(OutermostBinding(statements[n].keys[k]))

(***************************************************************************)
(* C23, amended: the scope chain is walked in the order the probe returns  *)
(* it, from the innermost scope to the outermost, and the first scope on   *)
(* that walk that binds the name supplies the value: a free variable bound *)
(* in several scopes gets the value of the innermost of them.              *)
(***************************************************************************)
C23_InnermostFirst ==
    status = "ok" =>
        \A n \in 1..Len(statements) :
            statements[n].kind = "closure" =>
                \A k \in ResolvedParameters(statements[n]) :
                    statements[n].exprs[k]
                        = RawValue(InnermostBinding(statements[n].keys[k]))

\* The closure of "g" was emitted with the inner value of "s", which two
\* scopes bind.
C23_Witness ==
    /\ status = "ok"
    /\ idents["g"] = <<"s">>
    /\ Cardinality(Binders("s")) = 2
    /\ \E n \in Emitted("g") :
          /\ statements[n].kind = "closure"
          /\ statements[n].keys = <<"s">>
          /\ statements[n].exprs = <<RawValue(Str("inner"))>>

(***************************************************************************)
(* Reading the analysed function: its blocks (the body, at the empty path, *)
(* and the blocks nested in it), what they declare, and which references   *)
(* the analysis reported as free.                                          *)
(***************************************************************************)
BlockPaths ==
    {<<>>} \cup {<<n>> : n \in {m \in 1..Len(analysed.statements) :
                                  analysed.statements[m].type = "Block"}}
StatementsAt(path) ==
    IF path = <<>> THEN analysed.statements ELSE analysed.statements[path[1]].statements

IsReference(stmt) == stmt.type = "ExpressionStatement"
IsFunction(stmt, name) == stmt.type = "FunctionDeclaration" /\ stmt.name = name
IsLexical(stmt, name) ==
    stmt.type = "VariableStatement" /\ stmt.flags \in {"let", "const"} /\ stmt.name = name
IsVar(stmt, name) ==
    stmt.type = "VariableStatement" /\ stmt.flags = "var" /\ stmt.name = name

DeclaresFunction(path, name) ==
    \E n \in 1..Len(StatementsAt(path)) : IsFunction(StatementsAt(path)[n], name)
LexicalBefore(path, n, name) ==
    \E m \in 1..(n - 1) : IsLexical(StatementsAt(path)[m], name)
LexicalAfter(path, n, name) ==
    \E m \in (n + 1)..Len(StatementsAt(path)) : IsLexical(StatementsAt(path)[m], name)
DeclaresVar(name) ==
    \E path \in BlockPaths :
        \E n \in 1..Len(StatementsAt(path)) : IsVar(StatementsAt(path)[n], name)

\* The name is bound where the block at `path` stands, by a declaration
\* outside that block.
BoundAround(path, name) ==
    /\ path # <<>>
    /\ (DeclaresFunction(<<>>, name) \/ LexicalBefore(<<>>, path[1], name))

Reported(at) ==
    \E n \in 1..Len(discovered.freeVariables) : discovered.freeVariables[n].at = at
ReportedWith(at, value) ==
    \E n \in 1..Len(discovered.freeVariables) :
        /\ discovered.freeVariables[n].at = at
        /\ discovered.freeVariables[n].variableValue = value

(***************************************************************************)
(* C24: in a block, a reference to a name the block declares with a        *)
(* function declaration is bound wherever the declaration stands; a        *)
(* reference after a let/const declaration of the name in the block is     *)
(* bound; a reference before it (the name not being bound otherwise) is    *)
(* reported free, with the value of the binding outside the function.      *)
(***************************************************************************)
C24_HoistedFunctionsNotLexicals ==
    discovered.done =>
        \A path \in BlockPaths :
            \A n \in 1..Len(StatementsAt(path)) :
                IsReference(StatementsAt(path)[n]) =>
                    /\ DeclaresFunction(path, StatementsAt(path)[n].name)
                          => ~Reported(Append(path, n))
                    /\ LexicalBefore(path, n, StatementsAt(path)[n].name)
                          => ~Reported(Append(path, n))
                    /\ (/\ LexicalAfter(path, n, StatementsAt(path)[n].name)
                        /\ ~LexicalBefore(path, n, StatementsAt(path)[n].name)
                        /\ ~DeclaresFunction(path, StatementsAt(path)[n].name)
                        /\ ~BoundAround(path, StatementsAt(path)[n].name)
                        /\ ~DeclaresVar(StatementsAt(path)[n].name))
                          => ReportedWith(Append(path, n),
                                          ModuleScope[StatementsAt(path)[n].name])

\* `p; let p = 1;` was analysed and the reference reported with the outer value.
C24_Witness ==
    /\ discovered.done
    /\ analysed.statements
          = <<ExpressionStatement("p"), VariableStatement("let", "p", TRUE)>>
    /\ Len(discovered.freeVariables) = 1
    /\ discovered.freeVariables[1].variableName = "p"
    /\ discovered.freeVariables[1].variableValue = Str("hi")

(***************************************************************************)
(* C25: a name declared with `var` anywhere in the function body (with or  *)
(* without an initializer, in the body's block or in a nested block,       *)
(* before or after the reference) is never reported as a free variable.    *)
(***************************************************************************)
C25_VarNeverFree ==
    discovered.done =>
        \A n \in 1..Len(discovered.freeVariables) :
            ~DeclaresVar(discovered.freeVariables[n].variableName)

(***************************************************************************)
(* C26: parseFunctionString calls itself at most once: a text that does    *)
(* not parse to a single statement with `function ` prepended either is    *)
(* rejected with an error of the parser, and the call stack is never       *)
(* exhausted.                                                              *)
(***************************************************************************)
C26_AtMostOneRetry ==
    /\ retries <= 1
    /\ parseResult \in {"parsing", "SourceFile", "failed to parse function"}

(***************************************************************************)
(* C27: nextVarName hands out every name once and never an excluded one,   *)
(* so that two distinct values never receive the same emitted identifier:  *)
(* the values of two free variables of different names, when each is       *)
(* emitted under an allocated name, are emitted under different names.     *)
(***************************************************************************)
\* The statements that build the record of a free variable; the record's
\* second property holds the expression its value was serialized to.
FreeVariableRecords ==
    {n \in 1..Len(statements) :
        /\ statements[n].kind = "object"
        /\ statements[n].keys = <<"variableName", "variableValue">>}

\* Every name nextVarName returned during the call.
AllocatedNames ==
    {statements[n].name : n \in {m \in 1..Len(statements) : statements[m].kind = "var"}}
    \cup {valueCache[value] : value \in DOMAIN valueCache}

FreeNames(func) == SetOf(Names(getFreeVariables(func).list))

C28_MintingTerminates ==
    \A func \in called \cap UserFunctions :
        /\ ~boundThisName(getFreeVariables(func).list).spins
        /\ boundThisName(getFreeVariables(func).list).name \notin FreeNames(func)
        /\ hasSuper(func) =>
              /\ ~superName(func, getFreeVariables(func).list).spins
              /\ superName(func, getFreeVariables(func).list).name \notin FreeNames(func)
              /\ superName(func, getFreeVariables(func).list).name
                    # boundThisName(getFreeVariables(func).list).name

(***************************************************************************)
(* C29: whatever the order in which the probe's requests are posted and    *)
(* return, no two requests ever draw the same key of a scratch table,      *)
(* every key in a table is the key of exactly one request that is          *)
(* outstanding, and once a request has returned, with a result or with an  *)
(* error, its key is not in the table.                                     *)
(***************************************************************************)
UsesFunctions(t) ==
    /\ tasks[t].kind \in {"getFreeVariableValue", "getFunctionInternals"}
    /\ tasks[t].pc # "start"

UsesCalls(t) == tasks[t].kind = "getValueForObjectId" /\ tasks[t].pc # "start"

C29_KeysOfRequestsInFlight ==
    /\ \A t, u \in 1..Len(tasks) :
          (t # u /\ ((UsesFunctions(t) /\ UsesFunctions(u)) \/ (UsesCalls(t) /\ UsesCalls(u))))
              => tasks[t].id # tasks[u].id
    /\ \A key \in context.functions :
          Cardinality({t \in Holding("Runtime.evaluate") : tasks[t].id = key}) = 1
    /\ \A key \in context.calls :
          Cardinality({t \in Holding("Runtime.callFunctionOn") : tasks[t].id = key}) = 1
    /\ \A t \in 1..Len(tasks) :
          /\ (UsesFunctions(t) /\ tasks[t].pc # "Runtime.evaluate")
                => tasks[t].id \notin context.functions
          /\ (UsesCalls(t) /\ tasks[t].pc # "Runtime.callFunctionOn")
                => tasks[t].id \notin context.calls

\* One request for a function id has failed and left nothing behind, while
\* the other is outstanding under its key.
C29_Witness ==
    /\ Len(tasks) = 2
    /\ tasks[1].kind = "getFreeVariableValue"
    /\ tasks[1].pc = "failed"
    /\ tasks[1].id = 0
    /\ tasks[2].pc = "Runtime.evaluate"
    /\ context.functions = {tasks[2].id}

(***************************************************************************)
(* C30: no identifier is declared by two statements of the emitted module; *)
(* in particular no name that a `var` statement declares is declared by a  *)
(* `const` statement (the statement of a closure) as well.                 *)
(***************************************************************************)
IsDeclaration(n, kinds) == statements[n].kind \in kinds

C30_DeclaredOnce ==
    \A n, m \in 1..Len(statements) :
        (IsDeclaration(n, {"var", "object"}) /\ IsDeclaration(m, {"closure"}))
            => statements[n].name # statements[m].name

====
